---- MODULE Spec2Model ----
(***************************************************************************)
(* read-note-studio: the adaptive practice core (per-pitch statistics,     *)
(* selection weights, weighted pick with no-immediate-repeat) and the      *)
(* practice session that routes on-screen, MIDI and microphone answers     *)
(* into submitMidi.                                                        *)
(*                                                                         *)
(* Numbers.  emaAcc is a dyadic rational; it is held as an integer         *)
(* numerator over EmaDen = 2 * 4^MaxSeen, so that the update               *)
(* 0.75*e + 0.25*c is exact for MaxSeen updates of a record (the doubles   *)
(* of the program are exact on the same values).  A weight is held as an   *)
(* integer in units of 1/WUnit, WUnit = 1000 * EmaDen: the three factors   *)
(* of weightForMidi carry one decimal each (0.6, 2.5, 1.8).  A field that  *)
(* is missing or not a number in a loaded record reads as NaN, and NaN     *)
(* propagates through arithmetic and fails every comparison, as in JS.     *)
(* NaN is held as one integer outside the range of every number of the     *)
(* model, and only the js* and Math* operators below look at numbers.      *)
(***************************************************************************)
EXTENDS Integers, Sequences, FiniteSets, TLC

VARIABLES
  stats,      \* App state `stats`: StatsMap, keyed by statsKey(midi)
  storage,    \* localStorage[STATS_STORAGE_KEY]
  call,       \* the last call of a function under study: its arguments and result
  answers,    \* outcomes recorded, or answers and MIDI messages delivered, so far
  \* App (the component)
  mounted,    \* the component is mounted
  rangeId,    \* state rangeId, as the index of the preset in RANGES
  level,      \* state difficulty (a DifficultyLevel)
  current,    \* state current: the midi of the Note shown
  pending,    \* submitMidi calls waiting in `await ensureAudioStarted()`
  timers,     \* window.setTimeout(() => next(current.midi), 700) not yet fired
  midiRender, \* the render whose submitMidi the MIDI input's onMsg closes over
  userPicks,  \* Next, reset and settings changes made so far (bounds the run)
  \* pitchDetection.ts (module state) and the detection loops of App
  mediaStream,  \* let mediaStream: the id of the stream, or 0 for null
  analyser,     \* let analyser (and dataArray): the id of its stream, or 0 for null
  liveStreams,  \* streams obtained from getUserMedia whose tracks are not stopped
  micRequests,  \* startPitchDetection calls waiting in `await getUserMedia`
  loops,        \* detectLoop callbacks scheduled with requestAnimationFrame
  rafRef,       \* pitchDetectionRef.current: the loop whose callback it names, or 0
  status,       \* state pitchDetectionStatus
  listens       \* getUserMedia requests made so far (their ids; bounds the run)

\* ------------------------------------------------------------------ bounds

\* Updates of one record that stay exact (sets the ema denominator).
MaxSeen == 3
\* Highest MIDI number of the range inputs given to buildMidiRange.
MidiTop == 127
\* Key presses, MIDI messages and detected pitches delivered in one run of the session.
MaxAnswers == 2
\* Clicks on Next, Reset, Connect MIDI and changes of the settings in one run.
MaxUserPicks == 1
\* Clicks on "Listen via Mic" that ask for the microphone in one run.
MaxListens == 2
\* Inputs of all three kinds together in one run.
MaxEvents == 3
\* The range presets the user selects among: the first NumRanges of RANGES.
NumRanges == 1

\* ------------------------------------------------------------- numbers

RECURSIVE Pow(_, _)
Pow(b, e) == IF e = 0 THEN 1 ELSE b * Pow(b, e - 1)

\* The JS values that are not numbers, held as integers outside the range of
\* every number of the model: NaN, null, and undefined (a missing field, a
\* missing argument, an index past the end of an array).
NaN == 0 - Pow(2, 30)
Null == NaN - 1
Undef == NaN - 2

EmaDen == 2 * Pow(4, MaxSeen)
WUnit == 1000 * EmaDen

\* ToNumber: null is 0, undefined is NaN
ToNumber(x) == IF x = Null THEN 0 ELSE IF x = Undef THEN NaN ELSE x

isNum(x) == ToNumber(x) # NaN

\* x + y, x * y as JS computes them on values that may not be numbers
jsAdd(x, y) == IF isNum(x) /\ isNum(y) THEN ToNumber(x) + ToNumber(y) ELSE NaN
jsMul(x, y) == IF isNum(x) /\ isNum(y) THEN ToNumber(x) * ToNumber(y) ELSE NaN

\* Math.min / Math.max: NaN if either argument is NaN
MathMin(x, y) == IF isNum(x) /\ isNum(y) THEN (IF x < y THEN x ELSE y) ELSE NaN
MathMax(x, y) == IF isNum(x) /\ isNum(y) THEN (IF x > y THEN x ELSE y) ELSE NaN

\* x <= y on numbers: false when either side is NaN
jsLe(x, y) == isNum(x) /\ isNum(y) /\ ToNumber(x) <= ToNumber(y)
\* x === y: no conversion, and NaN equals nothing
jsStrictEq(x, y) == x # NaN /\ y # NaN /\ x = y

\* ------------------------------------------------------------- noteUtils

\* DEFAULT_STATS = { seen: 0, correct: 0, wrong: 0, emaAcc: 0.5 }
DEFAULT_STATS == [seen |-> 0, correct |-> 0, wrong |-> 0, emaAcc |-> EmaDen \div 2]

midiToPitchClass(midi) == ((midi % 12) + 12) % 12

absOf(x) == IF x < 0 THEN 0 - x ELSE x

\* The decimal digits of a non-negative integer
RECURSIVE DecimalDigits(_)
DecimalDigits(n) == IF n < 10 THEN <<n>> ELSE Append(DecimalDigits(n \div 10), n % 10)

\* String(midi): a key is the digit string; String(undefined) is a key of its own
statsKey(midi) == IF midi = Undef THEN <<Undef>> ELSE DecimalDigits(midi)

\* stats[k] ?? { ...DEFAULT_STATS }
getStats(s, midi) ==
  IF statsKey(midi) \in DOMAIN s THEN s[statsKey(midi)] ELSE DEFAULT_STATS

\* (mutant) alpha = 0.5
emaStepHalf(emaAcc, wasCorrect) ==
  IF isNum(emaAcc)
  THEN (ToNumber(emaAcc) + (IF wasCorrect THEN EmaDen ELSE 0)) \div 2
  ELSE NaN

\* (mutant) the old value is not scaled down by 1 - alpha
emaStepNoDecay(emaAcc, wasCorrect) ==
  IF isNum(emaAcc)
  THEN (4 * ToNumber(emaAcc) + (IF wasCorrect THEN EmaDen ELSE 0)) \div 4
  ELSE NaN

\* (1 - alpha) * cur.emaAcc + alpha * (wasCorrect ? 1 : 0), alpha = 0.25
emaStep(emaAcc, wasCorrect) ==
  IF isNum(emaAcc)
  THEN (3 * ToNumber(emaAcc) + (IF wasCorrect THEN EmaDen ELSE 0)) \div 4
  ELSE NaN

\* (mutant) a wrong answer is counted as seen only
updateStatsWrongUncounted(s, midi, wasCorrect) ==
  LET cur == getStats(s, midi)
      rec == [seen |-> jsAdd(cur.seen, 1),
              correct |-> jsAdd(cur.correct, IF wasCorrect THEN 1 ELSE 0),
              wrong |-> cur.wrong,
              emaAcc |-> emaStep(cur.emaAcc, wasCorrect)]
  IN  [x \in (DOMAIN s) \cup {statsKey(midi)} |-> IF x = statsKey(midi) THEN rec ELSE s[x]]

\* (mutant) the result holds the updated entry only
updateStatsAlone(s, midi, wasCorrect) ==
  LET cur == getStats(s, midi)
  IN  [x \in {statsKey(midi)} |->
         [seen |-> jsAdd(cur.seen, 1),
          correct |-> jsAdd(cur.correct, IF wasCorrect THEN 1 ELSE 0),
          wrong |-> jsAdd(cur.wrong, IF wasCorrect THEN 0 ELSE 1),
          emaAcc |-> emaStep(cur.emaAcc, wasCorrect)]]

updateStats(s, midi, wasCorrect) ==
  LET k == statsKey(midi)
      cur == IF k \in DOMAIN s THEN s[k] ELSE DEFAULT_STATS
      seen == jsAdd(cur.seen, 1)
      correct == jsAdd(cur.correct, IF wasCorrect THEN 1 ELSE 0)
      wrong == jsAdd(cur.wrong, IF wasCorrect THEN 0 ELSE 1)
      emaAcc == emaStep(cur.emaAcc, wasCorrect)
      rec == [seen |-> seen, correct |-> correct, wrong |-> wrong, emaAcc |-> emaAcc]
  IN  [x \in (DOMAIN s) \cup {k} |-> IF x = k THEN rec ELSE s[x]]

\* (mutant) the novelty factor is 2
rawWeightNoveltyTwo(rec) ==
  LET penalty == jsAdd(10, jsMul(rec.wrong, 6))
      difficulty == jsAdd(10 * EmaDen, jsMul(jsAdd(EmaDen, jsMul(-1, rec.emaAcc)), 25))
      novelty == IF jsStrictEq(rec.seen, 0) THEN 20 ELSE 10
  IN  jsMul(jsMul(penalty, difficulty), novelty)

\* (mutant) no novelty factor
rawWeightNoNovelty(rec) ==
  jsMul(jsMul(jsAdd(10, jsMul(rec.wrong, 6)),
              jsAdd(10 * EmaDen, jsMul(jsAdd(EmaDen, jsMul(-1, rec.emaAcc)), 25))),
        10)

\* penalty * difficulty * novelty, in units of 1/WUnit, before the clamp
rawWeight(rec) ==
  LET penalty == jsAdd(10, jsMul(rec.wrong, 6))
      difficulty == jsAdd(10 * EmaDen, jsMul(jsAdd(EmaDen, jsMul(-1, rec.emaAcc)), 25))
      novelty == IF jsStrictEq(rec.seen, 0) THEN 18 ELSE 10
  IN  jsMul(jsMul(penalty, difficulty), novelty)

weightForMidi(s, midi) ==
  MathMax(WUnit, MathMin(8 * WUnit, rawWeight(getStats(s, midi))))

\* (mutant) B flat taken for B
isNaturalFlatB(m) == midiToPitchClass(m) \in {0, 2, 4, 5, 7, 9, 10}

isNatural(m) == midiToPitchClass(m) \in {0, 2, 4, 5, 7, 9, 11}

\* The m the for loop visits, in its order: minMidi, minMidi + 1, ... up to `last`
loopRange(minMidi, last) ==
  [i \in 1..(IF last >= minMidi THEN last - minMidi + 1 ELSE 0) |-> minMidi + i - 1]

\* (mutant) the loop stops one short of maxMidi
buildMidiRangeShort(minMidi, maxMidi, includeAccidentals) ==
  SelectSeq(loopRange(minMidi, maxMidi - 1), LAMBDA m : includeAccidentals \/ isNatural(m))

\* for (m = minMidi; m <= maxMidi; m++) if (includeAccidentals || isNatural) out.push(m)
buildMidiRange(minMidi, maxMidi, includeAccidentals) ==
  SelectSeq(loopRange(minMidi, maxMidi), LAMBDA m : includeAccidentals \/ isNatural(m))

\* weights.reduce((a, b) => a + b, 0), over the first n weights
RECURSIVE sumPrefix(_, _)
sumPrefix(weights, n) ==
  IF n = 0 THEN 0 ELSE jsAdd(sumPrefix(weights, n - 1), weights[n])

sumWeights(weights) == sumPrefix(weights, Len(weights))

\* The for loop of weightedPick from index i, r being what is left of the draw
RECURSIVE pickWalk(_, _, _, _)
pickWalk(items, weights, r, i) ==
  IF i > Len(items)
  THEN items[Len(items)]
  ELSE LET r2 == jsAdd(r, jsMul(-1, weights[i]))
       IN  IF jsLe(r2, 0) THEN items[i] ELSE pickWalk(items, weights, r2, i + 1)

\* (mutant) the walk stops on r < 0
RECURSIVE pickWalkStrict(_, _, _, _)
pickWalkStrict(items, weights, r, i) ==
  IF i > Len(items)
  THEN items[Len(items)]
  ELSE LET r2 == jsAdd(r, jsMul(-1, weights[i]))
       IN  IF isNum(r2) /\ r2 < 0 THEN items[i]
           ELSE pickWalkStrict(items, weights, r2, i + 1)

\* (mutant) weightedPick with the strict walk
weightedPickStrict(items, weights, rnd) ==
  LET total == sumWeights(weights)
  IN  IF jsLe(total, 0)
      THEN (IF items = <<>> THEN Undef ELSE items[rnd.i + 1])
      ELSE pickWalkStrict(items, weights, IF isNum(total) THEN rnd.r ELSE NaN, 1)

\* The random source.  Math.random() * total is any real in [0, total); the walk
\* compares it with partial sums of the weights only, and these are multiples of
\* 1/WUnit, so the draw is taken on that grid: rnd.r, in units of 1/WUnit.
\* rnd.i is Math.floor(Math.random() * items.length) of the uniform fallback.
weightedPick(items, weights, rnd) ==
  LET total == sumWeights(weights)
  IN  IF jsLe(total, 0)
      THEN (IF items = <<>> THEN Undef ELSE items[rnd.i + 1])
      ELSE pickWalk(items, weights, IF isNum(total) THEN rnd.r ELSE NaN, 1)


\* (mutant) the avoided pitch is not removed
pickArgsNoFilter(midiChoices, s, avoidMidi) ==
  [choices |-> midiChoices,
   adjustedWeights |-> [i \in 1..Len(midiChoices) |-> weightForMidi(s, midiChoices[i])]]

\* pickNextNote of App up to its call of weightedPick: the choices and weights it
\* passes, from the midiChoices and stats of the render it closes over
pickArgs(midiChoices, s, avoidMidi) ==
  LET weights == [i \in 1..Len(midiChoices) |-> weightForMidi(s, midiChoices[i])]
      keep == SelectSeq([i \in 1..Len(midiChoices) |-> i],
                        LAMBDA i : midiChoices[i] # avoidMidi)
      filter == avoidMidi # Undef /\ Len(midiChoices) > 1 /\ Len(keep) > 0
  IN  [choices |-> IF filter THEN [j \in 1..Len(keep) |-> midiChoices[keep[j]]]
                   ELSE midiChoices,
       adjustedWeights |-> IF filter THEN [j \in 1..Len(keep) |-> weights[keep[j]]]
                           ELSE weights]

\* pickNextNote; the result is the midi of the Note it returns
pickNextNote(midiChoices, s, avoidMidi, rnd) ==
  LET a == pickArgs(midiChoices, s, avoidMidi)
  IN  weightedPick(a.choices, a.adjustedWeights, rnd)

\* The draws Math.random() can give weightedPick on these weights: one on and one
\* just above each partial sum, and 0 (every other draw walks like one of these).
Draws(weights) ==
  LET total == sumWeights(weights)
      sums == {sumPrefix(weights, i) : i \in 1..Len(weights)}
  IN  IF isNum(total) /\ total > 0
      THEN {[r |-> x, i |-> 0] : x \in {y \in {0} \cup sums \cup {p + 1 : p \in sums} : y < total}}
      ELSE {[r |-> 0, i |-> j] : j \in 0..(IF Len(weights) > 0 THEN Len(weights) - 1 ELSE 0)}


\* ------------------------------------------------------------- persistence

\* localStorage.getItem(STATS_STORAGE_KEY): no item, or a text.  A text is held by
\* what JSON.parse makes of it: it throws, or yields a scalar (null, a number, a
\* string), or an object, held as the texts of the properties of its entries.
NoItem == [kind |-> "missing", entries |-> <<>>]
BadText == [kind |-> "invalid", entries |-> <<>>]
ScalarText == [kind |-> "scalar", entries |-> <<>>]
ObjectText(entries) == [kind |-> "object", entries |-> entries]

\* The text JSON.stringify writes for a property that holds a number: the property
\* is left out when the value is undefined, null stands for NaN and for null, and a
\* number is written in decimal: sign, integer digits, fraction digits
AbsentText == [kind |-> "absent", neg |-> FALSE, int |-> <<>>, frac |-> <<>>]
NullText == [kind |-> "null", neg |-> FALSE, int |-> <<>>, frac |-> <<>>]

\* The decimal digits of r / den, for 0 <= r < den and den a power of two
RECURSIVE fracDigits(_, _)
fracDigits(r, den) ==
  IF r = 0 THEN <<>> ELSE <<(10 * r) \div den>> \o fracDigits((10 * r) % den, den)

\* Number::toString of x / den.  The values of the model are dyadic with few digits:
\* their shortest decimal that reads back as the same double is their exact decimal
\* (0.46875, 0.0078125)
NumberText(x, den) ==
  [kind |-> "number", neg |-> x < 0,
   int |-> DecimalDigits(absOf(x) \div den),
   frac |-> fracDigits(absOf(x) % den, den)]

\* JSON.stringify of the property value x, a number in units of 1 / den
jsonNumber(x, den) ==
  IF x = Undef THEN AbsentText
  ELSE IF x = NaN \/ x = Null THEN NullText
  ELSE NumberText(x, den)

\* JSON.stringify of one NoteStats record
recordText(rec) ==
  [seen |-> jsonNumber(rec.seen, 1),
   correct |-> jsonNumber(rec.correct, 1),
   wrong |-> jsonNumber(rec.wrong, 1),
   emaAcc |-> jsonNumber(rec.emaAcc, EmaDen)]

\* (mutant) emaAcc is not written
jsonStringifyNoEma(s) ==
  [k \in DOMAIN s |-> [recordText(s[k]) EXCEPT !.emaAcc = AbsentText]]

\* JSON.stringify(stats)
jsonStringify(s) ==
  [k \in DOMAIN s |-> recordText(s[k])]

saveStats(s) == ObjectText(jsonStringify(s))

\* The integer a digit string reads as
RECURSIVE digitsValue(_)
digitsValue(digits) ==
  IF digits = <<>> THEN 0
  ELSE 10 * digitsValue(SubSeq(digits, 1, Len(digits) - 1)) + digits[Len(digits)]

\* The fraction 0.d1 d2 ... in units of 1 / den, read from its last digit
RECURSIVE fracValue(_, _)
fracValue(digits, den) ==
  IF digits = <<>> THEN 0
  ELSE (fracValue(Tail(digits), den) + Head(digits) * den) \div 10

\* JSON.parse of a property value, as a number in units of 1 / den
parseNumber(text, den) ==
  IF text.kind = "absent" THEN Undef
  ELSE IF text.kind = "null" THEN Null
  ELSE (IF text.neg THEN 0 - 1 ELSE 1)
         * (digitsValue(text.int) * den + fracValue(text.frac, den))

\* JSON.parse of an object of NoteStats records
jsonParse(entries) ==
  [k \in DOMAIN entries |->
     [seen |-> parseNumber(entries[k].seen, 1),
      correct |-> parseNumber(entries[k].correct, 1),
      wrong |-> parseNumber(entries[k].wrong, 1),
      emaAcc |-> parseNumber(entries[k].emaAcc, EmaDen)]]

loadStats(raw) ==
  IF raw.kind = "missing" THEN <<>>
  ELSE IF raw.kind = "invalid" THEN <<>>
  ELSE IF raw.kind # "object" THEN <<>>
  ELSE jsonParse(raw.entries)

coreVars == <<stats, storage, call, answers>>
appVars == <<mounted, rangeId, level, current, pending, timers, midiRender, userPicks>>
micVars == <<mediaStream, analyser, liveStreams, micRequests, loops, rafRef, status, listens>>
vars == <<coreVars, appVars, micVars>>

\* The component and the detector as they are before anything runs
AppIdle ==
  /\ mounted = FALSE /\ rangeId = 1 /\ level = "beginner" /\ current = 60
  /\ pending = {} /\ timers = {} /\ midiRender = <<>> /\ userPicks = 0

MicIdle ==
  /\ mediaStream = 0 /\ analyser = 0 /\ liveStreams = {} /\ micRequests = {}
  /\ loops = {} /\ rafRef = 0 /\ status = "Microphone: not connected" /\ listens = 0

NoCall == [fn |-> "none"]

\* ------------------------------------------------- the stats functions

\* Records a stored table can hold: as written by saveStats, numbers out of
\* range, and records with missing fields (another writer, a damaged item).
StoredRecords ==
  { [seen |-> 2, correct |-> 1, wrong |-> 1, emaAcc |-> EmaDen \div 2],
    [seen |-> 1, correct |-> 0, wrong |-> 9, emaAcc |-> 0],
    [seen |-> 0, correct |-> 0, wrong |-> 0 - 5, emaAcc |-> 5 * EmaDen],
    [seen |-> 0, correct |-> 0, wrong |-> 0 - 5, emaAcc |-> 0 - EmaDen],
    [seen |-> Null, correct |-> Null, wrong |-> Null, emaAcc |-> Null],
    [seen |-> 1, correct |-> 1, wrong |-> Undef, emaAcc |-> EmaDen],
    [seen |-> Undef, correct |-> Undef, wrong |-> Undef, emaAcc |-> Undef] }

StudyMidis == {60, 62}

StorageValues ==
  {NoItem, BadText, ScalarText, ObjectText(<<>>)}
    \cup {ObjectText([k \in {statsKey(60)} |-> recordText(r)]) : r \in StoredRecords}

InitStats ==
  /\ storage \in StorageValues
  /\ stats = loadStats(storage)
  /\ call = NoCall
  /\ answers = 0
  /\ AppIdle /\ MicIdle

\* setStats(updateStats(...)) and the "Persist stats" effect that follows it
RecordOutcome(midi, wasCorrect) ==
  /\ call = NoCall
  /\ answers < MaxSeen
  /\ stats' = updateStats(stats, midi, wasCorrect)
  /\ storage' = saveStats(stats')
  /\ answers' = answers + 1
  /\ call' = [fn |-> "updateStats", s |-> stats, midi |-> midi,
              wasCorrect |-> wasCorrect, out |-> stats']
  /\ UNCHANGED <<appVars, micVars>>

Weigh(midi) ==
  /\ call = NoCall
  /\ call' = [fn |-> "weightForMidi", s |-> stats, midi |-> midi,
              out |-> weightForMidi(stats, midi)]
  /\ UNCHANGED <<stats, storage, answers, appVars, micVars>>

PickWindow == 60..63
\* The ranges start on a natural or on a black key: a range of black keys only
\* gives pickNextNote the empty candidate set when accidentals are left out
PickMins == {60, 61}

Pick(minMidi, maxMidi, includeAccidentals, avoidMidi) ==
  /\ call = NoCall
  /\ LET midiChoices == buildMidiRange(minMidi, maxMidi, includeAccidentals)
     IN  \E rnd \in Draws(pickArgs(midiChoices, stats, avoidMidi).adjustedWeights) :
        /\ call' = [fn |-> "pickNextNote", s |-> stats, midiChoices |-> midiChoices,
                    avoidMidi |-> avoidMidi, rnd |-> rnd,
                    out |-> pickNextNote(midiChoices, stats, avoidMidi, rnd)]
        /\ UNCHANGED <<stats, storage, answers, appVars, micVars>>

\* The page is loaded again: useState(() => loadStats())
Reload ==
  /\ call = NoCall
  /\ stats' = loadStats(storage)
  /\ call' = [fn |-> "loadStats", raw |-> storage, out |-> stats']
  /\ UNCHANGED <<storage, answers, appVars, micVars>>

\* The call under study returns: the next one starts from the table it left
Return ==
  /\ call # NoCall
  /\ call' = NoCall
  /\ UNCHANGED <<stats, storage, answers, appVars, micVars>>

NextStats ==
  \/ Return
  \/ Reload
  \/ \E midi \in StudyMidis, wasCorrect \in BOOLEAN : RecordOutcome(midi, wasCorrect)
  \/ \E midi \in StudyMidis \cup {64} : Weigh(midi)
  \/ \E minMidi \in PickMins, maxMidi \in PickWindow, includeAccidentals \in BOOLEAN,
        avoidMidi \in PickWindow \cup {Undef} :
       Pick(minMidi, maxMidi, includeAccidentals, avoidMidi)

SpecStats == InitStats /\ [][NextStats]_vars

\* ------------------------------------------------- the table from empty

\* The app starts with nothing stored, or with an item that loadStats turns into {}
InitTable ==
  /\ InitStats
  /\ stats = <<>>

\* handleResetStats on the table: setStats({}) and the "Persist stats" effect that
\* follows it (its next() picks a target and leaves the table as it is)
ClearTable ==
  /\ call = NoCall
  /\ stats' = <<>>
  /\ storage' = saveStats(stats')
  /\ call' = [fn |-> "handleResetStats", s |-> stats, out |-> stats']
  /\ UNCHANGED <<answers, appVars, micVars>>

NextTable ==
  \/ Return
  \/ Reload
  \/ ClearTable
  \/ \E midi \in StudyMidis, wasCorrect \in BOOLEAN : RecordOutcome(midi, wasCorrect)
  \/ \E midi \in StudyMidis \cup {64} : Weigh(midi)

SpecTable == InitTable /\ [][NextTable]_vars

\* ------------------------------------------------- the candidate set

InitBuild ==
  /\ storage = NoItem
  /\ stats = <<>>
  /\ answers = 0
  /\ AppIdle /\ MicIdle
  /\ call \in {[fn |-> "args", minMidi |-> lo, maxMidi |-> hi, includeAccidentals |-> acc] :
                 lo \in 0..MidiTop, hi \in 0..MidiTop, acc \in BOOLEAN}

Build ==
  /\ call.fn = "args"
  /\ call' = [fn |-> "buildMidiRange", minMidi |-> call.minMidi, maxMidi |-> call.maxMidi,
              includeAccidentals |-> call.includeAccidentals,
              out |-> buildMidiRange(call.minMidi, call.maxMidi, call.includeAccidentals)]
  /\ UNCHANGED <<stats, storage, answers, appVars, micVars>>

NextBuild == Build

SpecBuild == InitBuild /\ [][NextBuild]_vars

\* ------------------------------------------------- the practice session

\* constants.ts
RANGES ==
  << [id |-> "beginner_5", minMidi |-> 60, maxMidi |-> 67],
     [id |-> "beginner_7", minMidi |-> 60, maxMidi |-> 71],
     [id |-> "treble_easy", minMidi |-> 60, maxMidi |-> 71],
     [id |-> "treble_mid", minMidi |-> 60, maxMidi |-> 84],
     [id |-> "bass_low", minMidi |-> 40, maxMidi |-> 60],
     [id |-> "bass_mid", minMidi |-> 36, maxMidi |-> 60] >>

DifficultyLevels == {"beginner", "intermediate", "advanced"}

SelectableRanges == 1..(IF NumRanges < Len(RANGES) THEN NumRanges ELSE Len(RANGES))

\* The difficulty levels the user selects among
SelectableLevels == {"beginner", "advanced"}

\* The members of an array
SeqToSet(q) == {q[i] : i \in 1..Len(q)}

\* A render of App: the state its functions (submitMidi, next, pickNextNote,
\* detectLoop) close over.  A handler installed by one render keeps that render.
ThisRender == [current |-> current, stats |-> stats, rangeId |-> rangeId, level |-> level]

\* useMemo includeAccidentals, midiChoices
includeAccidentalsOf(lv) == lv # "beginner"

choicesOf(r, lv) ==
  buildMidiRange(RANGES[r].minMidi, RANGES[r].maxMidi, includeAccidentalsOf(lv))

midiChoicesOf(render) == choicesOf(render.rangeId, render.level)

\* The draws of Math.random() tried in the session: the lowest and the highest,
\* which pick the first and the last candidate that can be picked
SessionDraws(weights) ==
  LET all == Draws(weights)
  IN  {x \in all : \/ \A y \in all : x.r <= y.r /\ x.i <= y.i
                   \/ \A y \in all : x.r >= y.r /\ x.i >= y.i}

\* Notes the learner plays besides the one shown
ProbeMidis == {60, 61}

\* What the stored item holds when the app starts
SessionStorageValues ==
  {NoItem,
   ObjectText([k \in {statsKey(62)} |->
                 recordText([seen |-> 2, correct |-> 1, wrong |-> 1, emaAcc |-> EmaDen \div 2])])}

\* The first render and its effects: stats loaded and persisted, current = C4, then
\* the settings effect picks the first note
Init ==
  /\ \E raw \in SessionStorageValues, r \in SelectableRanges, lv \in SelectableLevels :
       \E rnd \in SessionDraws(pickArgs(choicesOf(r, lv), loadStats(raw), 60).adjustedWeights) :
         /\ stats = loadStats(raw)
         /\ storage = saveStats(loadStats(raw))
         /\ rangeId = r
         /\ level = lv
         /\ current = pickNextNote(choicesOf(r, lv), loadStats(raw), 60, rnd)
  /\ mounted = TRUE
  /\ pending = {} /\ timers = {} /\ midiRender = <<>> /\ userPicks = 0
  /\ call = NoCall /\ answers = 0
  /\ MicIdle

\* Room for one more input in this run
MoreEvents == answers + userPicks + listens < MaxEvents

\* submitMidi up to `await ensureAudioStarted()`, called by `source` with the
\* submitMidi of `render`
Submitted(source, answerMidi, render) ==
  pending \cup {[source |-> source, answerMidi |-> answerMidi, render |-> render,
                 shown |-> current, n |-> answers + 1]}

\* PianoKeyboard: a key of the answer set is pressed; onKeyPress is the submitMidi
\* of the latest render
KeyPress(midi) ==
  /\ mounted
  /\ answers < MaxAnswers /\ MoreEvents
  /\ LET enabled == midi \in SeqToSet(midiChoicesOf(ThisRender))
     IN  /\ pending' = IF enabled THEN Submitted("key", midi, ThisRender) ELSE pending
         /\ call' = [fn |-> "handlePress", note |-> midi, inSet |-> enabled,
                     submitted |-> enabled]
  /\ answers' = answers + 1
  /\ UNCHANGED <<stats, storage, mounted, rangeId, level, current, timers, midiRender,
                 userPicks, micVars>>

\* submitMidi after the await: the answer is judged and recorded, the advance timer set
SubmitResume(p) ==
  /\ mounted
  /\ p \in pending
  /\ LET correct == jsStrictEq(p.answerMidi, p.render.current)
     IN  /\ stats' = updateStats(stats, p.render.current, correct)
         /\ call' = [fn |-> "submitMidi", source |-> p.source, answerMidi |-> p.answerMidi,
                     target |-> p.render.current, shown |-> p.shown, correct |-> correct,
                     s |-> stats, out |-> stats']
  /\ storage' = saveStats(stats')
  /\ pending' = pending \ {p}
  /\ timers' = timers \cup {[render |-> p.render, n |-> p.n]}
  /\ UNCHANGED <<answers, mounted, rangeId, level, current, midiRender, userPicks, micVars>>

\* setCurrent(pickNextNote(avoidMidi)) by the pickNextNote of `render`
PickBy(render, avoidMidi, fn) ==
  \E rnd \in SessionDraws(pickArgs(midiChoicesOf(render), render.stats, avoidMidi).adjustedWeights) :
    /\ current' = pickNextNote(midiChoicesOf(render), render.stats, avoidMidi, rnd)
    /\ call' = [fn |-> fn, s |-> render.stats, midiChoices |-> midiChoicesOf(render),
                avoidMidi |-> avoidMidi, out |-> current']

\* the timer of submitMidi fires: next(current.midi) of the render that set it
AdvanceTimer(t) ==
  /\ mounted
  /\ t \in timers
  /\ PickBy(t.render, t.render.current, "next (timer)")
  /\ timers' = timers \ {t}
  /\ UNCHANGED <<stats, storage, answers, mounted, rangeId, level, pending, midiRender,
                 userPicks, micVars>>

\* the Next button: next()
NextClick ==
  /\ mounted
  /\ userPicks < MaxUserPicks /\ MoreEvents
  /\ PickBy(ThisRender, current, "next (button)")
  /\ userPicks' = userPicks + 1
  /\ UNCHANGED <<stats, storage, answers, mounted, rangeId, level, pending, timers,
                 midiRender, micVars>>

\* handleResetStats: setStats({}), then next() of the render of the click
ResetStats ==
  /\ mounted
  /\ userPicks < MaxUserPicks /\ MoreEvents
  /\ PickBy(ThisRender, current, "handleResetStats")
  /\ stats' = <<>>
  /\ storage' = saveStats(stats')
  /\ userPicks' = userPicks + 1
  /\ UNCHANGED <<answers, mounted, rangeId, level, pending, timers, midiRender, micVars>>

\* setRangeId / setDifficulty, and the settings effect of the render that follows
ChangeSettings(r, lv) ==
  /\ mounted
  /\ userPicks < MaxUserPicks /\ MoreEvents
  /\ <<r, lv>> # <<rangeId, level>>
  /\ rangeId' = r
  /\ level' = lv
  /\ PickBy([current |-> current, stats |-> stats, rangeId |-> r, level |-> lv],
            current, "settings effect")
  /\ userPicks' = userPicks + 1
  /\ UNCHANGED <<stats, storage, answers, mounted, pending, timers, midiRender, micVars>>

\* setKeySigId, and the settings effect of the render that follows
ChangeKeySig ==
  /\ mounted
  /\ userPicks < MaxUserPicks /\ MoreEvents
  /\ PickBy(ThisRender, current, "settings effect (key signature)")
  /\ userPicks' = userPicks + 1
  /\ UNCHANGED <<stats, storage, answers, mounted, rangeId, level, pending, timers,
                 midiRender, micVars>>

\* connectMidi: input.onmidimessage = onMsg, which calls the submitMidi of the
\* render of the click
ConnectMidi ==
  /\ mounted
  /\ userPicks < MaxUserPicks /\ MoreEvents
  /\ midiRender' = ThisRender
  /\ userPicks' = userPicks + 1
  /\ call' = [fn |-> "connectMidi"]
  /\ UNCHANGED <<stats, storage, answers, mounted, rangeId, level, current, pending,
                 timers, micVars>>

\* status & 0xf0
\* (mutant) the channel nibble is taken for the command
commandOfChannel(statusByte) == statusByte % 16

commandOf(statusByte) == (statusByte \div 16) * 16

\* onMsg
MidiMessage(statusByte, note, velocity) ==
  /\ mounted
  /\ midiRender # <<>>
  /\ answers < MaxAnswers /\ MoreEvents
  /\ LET isNoteOn == commandOf(statusByte) = 144 /\ velocity > 0
     IN  /\ pending' = IF isNoteOn THEN Submitted("midi", note, midiRender) ELSE pending
         /\ answers' = answers + 1
         /\ call' = [fn |-> "onMsg", status |-> statusByte, note |-> note,
                     velocity |-> velocity,
                     inSet |-> note \in SeqToSet(midiChoicesOf(ThisRender)),
                     submitted |-> isNoteOn]
  /\ UNCHANGED <<stats, storage, mounted, rangeId, level, current, timers, midiRender,
                 userPicks, micVars>>

\* ------------------------------------------------- the pitch detector

\* isPitchDetectionActive
isPitchDetectionActive == analyser # 0 /\ mediaStream # 0

\* (mutant) the analyser is not cleared
stopPitchDetectionKeepsAnalyser ==
  /\ liveStreams' = liveStreams \ {mediaStream}
  /\ mediaStream' = 0
  /\ analyser' = analyser

\* stopPitchDetection: the tracks of the stream the module holds are stopped, the
\* context closed, analyser and dataArray cleared
stopPitchDetection ==
  /\ liveStreams' = liveStreams \ {mediaStream}
  /\ mediaStream' = 0
  /\ analyser' = 0

\* cancelAnimationFrame(pitchDetectionRef.current): the frame request named by the
\* ref is the one of the loop that called requestAnimationFrame last
cancelAnimationFrame(ref) == {l \in loops : l.id # ref}

\* The requests for the microphone in flight learn that a stop happened while they wait
\* (kept for the properties only; the code keeps no such mark)
StopSeen == {[q EXCEPT !.stopped = TRUE] : q \in micRequests}

\* The last call was a stop of the detection: the stop path of the click, or the teardown
StopProcessed ==
  \/ call.fn = "connectPitchDetection" /\ call.path = "stop"
  \/ call.fn = "unmount"

\* connectPitchDetection up to its return or its await
ListenClick ==
  /\ mounted
  /\ IF isPitchDetectionActive
     THEN /\ stopPitchDetection
          /\ loops' = cancelAnimationFrame(rafRef)
          /\ rafRef' = 0
          /\ status' = "Microphone: not connected"
          /\ micRequests' = StopSeen
          /\ listens' = listens
          /\ call' = [fn |-> "connectPitchDetection", path |-> "stop"]
     ELSE /\ listens < MaxListens /\ MoreEvents
          /\ micRequests' = micRequests \cup
               {[id |-> listens + 1, render |-> ThisRender, stopped |-> FALSE]}
          /\ listens' = listens + 1
          /\ call' = [fn |-> "connectPitchDetection", path |-> "start"]
          /\ UNCHANGED <<mediaStream, analyser, liveStreams, loops, rafRef, status>>
  /\ UNCHANGED <<stats, storage, answers, appVars>>

\* startPitchDetection after `await getUserMedia`, and connectPitchDetection after
\* `await startPitchDetection()`.  outcome "denied": getUserMedia rejects;
\* "noContext": the stream is obtained and the AudioContext constructor throws;
\* "granted": the graph is built, the status set and detectLoop() called, whose first
\* run reads a buffer no audio has reached yet and requests the next frame
MicAnswer(q, outcome) ==
  /\ q \in micRequests
  /\ micRequests' = micRequests \ {q}
  /\ mediaStream' = IF outcome = "denied" THEN mediaStream ELSE q.id
  /\ liveStreams' = IF outcome = "denied" THEN liveStreams ELSE liveStreams \cup {q.id}
  /\ analyser' = IF outcome = "granted" THEN q.id ELSE analyser
  /\ loops' = IF outcome = "granted"
              THEN loops \cup {[id |-> q.id, render |-> q.render]} ELSE loops
  /\ rafRef' = IF outcome = "granted" THEN q.id ELSE rafRef
  /\ status' = IF ~mounted THEN status
               ELSE IF outcome = "granted" THEN "Microphone: listening..."
               ELSE "Microphone: access denied"
  /\ call' = [fn |-> "startPitchDetection", id |-> q.id, outcome |-> outcome,
              stoppedWhilePending |-> q.stopped]
  /\ UNCHANGED <<stats, storage, answers, appVars, listens>>

\* detectLoop of loop l, run by a frame callback.  detected = 0: detectPitch returned
\* null or no frequency; otherwise frequencyToMidi of the frequency it returned
Tick(l, detected) ==
  /\ l \in loops
  /\ analyser = 0 => detected = 0
  /\ LET submits == /\ detected # 0
                    /\ detected \in SeqToSet(midiChoicesOf(l.render))
                    /\ mounted
     IN  /\ submits => answers < MaxAnswers /\ MoreEvents
         /\ pending' = IF submits THEN Submitted("pitch", detected, l.render) ELSE pending
         /\ answers' = IF submits THEN answers + 1 ELSE answers
         /\ call' = [fn |-> "detectLoop", id |-> l.id, detected |-> detected,
                     note |-> detected,
                     inSet |-> detected \in SeqToSet(midiChoicesOf(ThisRender)),
                     submitted |-> submits]
  /\ rafRef' = l.id
  /\ UNCHANGED <<stats, storage, mounted, rangeId, level, current, timers, midiRender,
                 userPicks, mediaStream, analyser, liveStreams, micRequests, loops,
                 status, listens>>

\* The component unmounts: the cleanup of the pitch effect and of the MIDI effect.
\* After it the setters change no state: submissions and timers in flight stay where
\* they are
Unmount ==
  /\ mounted
  /\ mounted' = FALSE
  /\ loops' = cancelAnimationFrame(rafRef)
  /\ stopPitchDetection
  /\ micRequests' = StopSeen
  /\ midiRender' = <<>>
  /\ call' = [fn |-> "unmount", stopJustRan |-> StopProcessed]
  /\ UNCHANGED <<stats, storage, answers, rangeId, level, current, pending, timers,
                 userPicks, rafRef, status, listens>>

\* ------------------------------------------------- the session as a whole

\* Notes that reach submitMidi: the one shown, the one a stale handler holds, others
PlayedMidis == {current} \cup ProbeMidis

StatusBytes == {128, 145, 176}

Velocities == {0, 64}

MicOutcomes == {"granted", "denied", "noContext"}

Next ==
  \/ \E midi \in PlayedMidis : KeyPress(midi)
  \/ \E p \in pending : SubmitResume(p)
  \/ \E t \in timers : AdvanceTimer(t)
  \/ NextClick
  \/ ResetStats
  \/ \E r \in SelectableRanges, lv \in SelectableLevels : ChangeSettings(r, lv)
  \/ ChangeKeySig
  \/ ConnectMidi
  \/ \E b \in StatusBytes, note \in PlayedMidis, v \in Velocities : MidiMessage(b, note, v)
  \/ ListenClick
  \/ \E q \in micRequests, outcome \in MicOutcomes : MicAnswer(q, outcome)
  \/ \E l \in loops, detected \in {0} \cup PlayedMidis : Tick(l, detected)
  \/ Unmount

Spec == Init /\ [][Next]_vars

\* ------------------------------------------------- pitchDetection.ts: autoCorrelate

\* Samples are integers in units of 1/SampleUnit.  On this grid the sums, the
\* quotients and the comparisons of autoCorrelate in doubles agree with the exact ones
\* below: the sums are exact, and two different quotients are further apart than the
\* rounding of a double.
SampleUnit == Pow(2, 9)

\* rms += val * val, for the samples lo..hi (the order of an exact sum is free)
RECURSIVE sumSquares(_, _, _)
sumSquares(buffer, lo, hi) ==
  IF lo > hi THEN 0
  ELSE IF lo = hi THEN buffer[lo] * buffer[lo]
  ELSE LET mid == (lo + hi) \div 2
       IN  sumSquares(buffer, lo, mid) + sumSquares(buffer, mid + 1, hi)

\* (mutant) the gate lets every buffer through
rmsBelowGateNever(buffer) == FALSE

\* Math.sqrt(rms / buffer.length) < 0.01.  An empty buffer gives NaN, which is not
\* below the gate.
rmsBelowGate(buffer) ==
  /\ Len(buffer) > 0
  /\ sumSquares(buffer, 1, Len(buffer))
       <= (Len(buffer) * SampleUnit * SampleUnit - 1) \div 10000

\* correlation += Math.abs(buffer[i] - buffer[i + offset]), for i = lo..hi (0-based)
RECURSIVE sumAbsDiff(_, _, _, _)
sumAbsDiff(buffer, offset, lo, hi) ==
  IF lo > hi THEN 0
  ELSE IF lo = hi THEN absOf(buffer[lo + 1] - buffer[lo + offset + 1])
  ELSE LET mid == (lo + hi) \div 2
       IN  sumAbsDiff(buffer, offset, lo, mid) + sumAbsDiff(buffer, offset, mid + 1, hi)

\* a / b < p / q for b, q > 0, without a product that leaves the integers of TLC
RECURSIVE ratLess(_, _, _, _)
ratLess(a, b, p, q) ==
  IF a \div b # p \div q THEN a \div b < p \div q
  ELSE IF p % q = 0 THEN FALSE
  ELSE IF a % b = 0 THEN TRUE
  ELSE ratLess(q, p % q, b, a % b)

\* A correlation or a frequency: the fraction num / den
Fraction(num, den) == [num |-> num, den |-> den]

\* The correlation that is NaN (0 / 0)
NaNCorrelation == Fraction(0, 0)

\* The result null of autoCorrelate: no frequency
NoFrequency == Fraction(0, 0)

\* x > y on correlations
corrGt(x, y) == x.den # 0 /\ y.den # 0 /\ ratLess(y.num, y.den, x.num, x.den)

\* correlation = 1 - correlation / (buffer.length - offset).  Past the end of the buffer
\* the sum is 0: 0 / 0 is NaN, and 0 / negative is -0, which leaves 1
correlationAt(buffer, offset) ==
  LET size == Len(buffer) - offset
  IN  IF size = 0 THEN NaNCorrelation
      ELSE IF size < 0 THEN Fraction(1, 1)
      ELSE Fraction(SampleUnit * size - sumAbsDiff(buffer, offset, 0, size - 1),
                    SampleUnit * size)

\* (mutant) the peak need not rise above the correlation of the lag before
scanStepNoRise(st, buffer, offset) ==
  LET correlation == correlationAt(buffer, offset)
      better == /\ corrGt(correlation, Fraction(9, 10))
                /\ corrGt(correlation, st.bestCorrelation)
  IN  [bestCorrelation |-> IF better THEN correlation ELSE st.bestCorrelation,
       bestOffset |-> IF better THEN offset ELSE st.bestOffset,
       lastCorrelation |-> correlation]

\* one turn of the loop over the offsets
scanStep(st, buffer, offset) ==
  LET correlation == correlationAt(buffer, offset)
      better == /\ corrGt(correlation, Fraction(9, 10))
                /\ corrGt(correlation, st.lastCorrelation)
                /\ corrGt(correlation, st.bestCorrelation)
  IN  [bestCorrelation |-> IF better THEN correlation ELSE st.bestCorrelation,
       bestOffset |-> IF better THEN offset ELSE st.bestOffset,
       lastCorrelation |-> correlation]

\* the loop for offset = lo..hi, in order: the first half of the turns is run to its
\* end before the second starts from its state
RECURSIVE scanOffsets(_, _, _, _)
scanOffsets(st, buffer, lo, hi) ==
  IF lo > hi THEN st
  ELSE IF lo = hi THEN scanStep(st, buffer, lo)
  ELSE LET mid == (lo + hi) \div 2
           half == scanOffsets(st, buffer, lo, mid)
       IN  IF half.bestOffset < mid + 1
           THEN scanOffsets(half, buffer, mid + 1, hi)
           ELSE half

\* Math.floor(sampleRate / 4186)
minSamplesOf(sampleRate) == sampleRate \div 4186

\* Math.ceil(sampleRate / 27.5)
maxSamplesOf(sampleRate) == (2 * sampleRate + 54) \div 55

\* autoCorrelate: null, or the frequency sampleRate / bestOffset as a fraction
autoCorrelate(buffer, sampleRate) ==
  IF rmsBelowGate(buffer) THEN NoFrequency
  ELSE LET st == scanOffsets([bestCorrelation |-> Fraction(0, 1), bestOffset |-> 0 - 1,
                              lastCorrelation |-> Fraction(1, 1)],
                             buffer, minSamplesOf(sampleRate), maxSamplesOf(sampleRate) - 1)
       IN  IF corrGt(st.bestCorrelation, Fraction(9, 10)) /\ st.bestOffset # 0 - 1
           THEN Fraction(sampleRate, st.bestOffset)
           ELSE NoFrequency

\* 2^((2j - 1) / 24) for j = 0..11, in units of 1/100000: the frequency ratio at
\* which 12 * log2 reaches j - 1/2
SemitoneEdges ==
  << 97153, 102930, 109051, 115535, 122405, 129684, 137395, 145565, 154221, 163392, 173107, 183401 >>

\* 440 * 2^((m - 69.5) / 12), the lowest frequency that rounds to m, as a fraction
edgeOf(m) ==
  LET octave == (m - 69) \div 12
      j == (m - 69) % 12
  IN  IF octave >= 0
      THEN Fraction(440 * SemitoneEdges[j + 1] * Pow(2, octave), 100000)
      ELSE Fraction(440 * SemitoneEdges[j + 1], 100000 * Pow(2, 0 - octave))

\* (mutant) the reference pitch is taken as 880 Hz
frequencyToMidiOctaveOff(frequency) ==
  LET reached == {m \in 0..136 : ~ratLess(frequency.num, 2 * frequency.den,
                                          edgeOf(m).num, edgeOf(m).den)}
  IN  CHOOSE m \in reached : \A k \in reached : k <= m

\* frequencyToMidi: Math.round(69 + 12 * Math.log2(frequency / 440)), for the
\* frequencies between 9 Hz and 20 kHz: the highest m whose edge the frequency reaches
frequencyToMidi(frequency) ==
  LET reached == {m \in 0..136 : ~ratLess(frequency.num, frequency.den,
                                          edgeOf(m).num, edgeOf(m).den)}
  IN  CHOOSE m \in reached : \A k \in reached : k <= m

\* round(SampleUnit * sin(2 pi 440 i / 44100)) for i = 0..2047: a 440 Hz sine of
\* amplitude 1 sampled at 44100 Hz, one window of the analyser
Sine440 ==
  << 0, 32, 64, 96, 127, 158, 188, 218, 246, 274, 300, 326, 350, 373, 394, 414,
     432, 448, 463, 476, 486, 496, 503, 508, 511, 512, 511, 508, 503, 496, 488, 477,
     464, 450, 434, 416, 396, 375, 353, 329, 303, 277, 249, 221, 191, 161, 131, 99,
     68, 36, 4, -28, -60, -92, -124, -154, -185, -214, -243, -271, -297, -323, -347, -370,
     -392, -411, -430, -446, -461, -474, -485, -495, -502, -507, -511, -512, -511, -509, -504, -497,
     -489, -478, -466, -452, -436, -418, -398, -378, -355, -331, -306, -280, -253, -224, -195, -165,
     -134, -103, -71, -39, -7, 25, 57, 89, 120, 151, 181, 211, 240, 268, 294, 320,
     344, 368, 389, 409, 428, 444, 460, 473, 484, 494, 501, 507, 510, 512, 511, 509,
     505, 498, 490, 479, 467, 453, 437, 420, 401, 380, 358, 334, 309, 283, 256, 227,
     198, 168, 138, 106, 75, 43, 11, -21, -53, -85, -116, -147, -178, -208, -236, -264,
     -291, -317, -342, -365, -387, -407, -426, -443, -458, -471, -483, -493, -500, -506, -510, -512,
     -512, -509, -505, -499, -491, -481, -469, -455, -439, -422, -403, -382, -360, -337, -312, -286,
     -259, -231, -202, -172, -141, -110, -78, -47, -15, 18, 50, 81, 113, 144, 174, 204,
     233, 261, 288, 314, 339, 362, 384, 405, 424, 441, 456, 470, 482, 492, 500, 506,
     510, 512, 512, 510, 506, 500, 492, 482, 470, 457, 441, 424, 405, 385, 363, 340,
     315, 289, 262, 234, 205, 175, 145, 114, 82, 50, 18, -14, -46, -78, -109, -140,
     -171, -201, -230, -258, -285, -311, -336, -360, -382, -403, -422, -439, -455, -468, -480, -491,
     -499, -505, -509, -512, -512, -510, -506, -501, -493, -483, -472, -458, -443, -426, -407, -387,
     -366, -342, -318, -292, -265, -237, -208, -179, -148, -117, -86, -54, -22, 10, 42, 74,
     106, 137, 168, 198, 227, 255, 282, 309, 334, 357, 380, 400, 420, 437, 453, 467,
     479, 490, 498, 504, 509, 511, 512, 510, 507, 501, 494, 484, 473, 460, 445, 428,
     410, 390, 368, 345, 321, 295, 268, 240, 212, 182, 152, 121, 89, 58, 26, -7,
     -39, -71, -102, -133, -164, -194, -223, -252, -279, -306, -331, -355, -377, -398, -417, -435,
     -451, -465, -478, -488, -497, -504, -509, -511, -512, -511, -507, -502, -495, -486, -474, -461,
     -447, -430, -412, -392, -371, -348, -323, -298, -271, -244, -215, -185, -155, -124, -93, -61,
     -29, 3, 35, 67, 99, 130, 161, 191, 220, 249, 276, 303, 328, 352, 375, 396,
     415, 433, 449, 464, 477, 487, 496, 503, 508, 511, 512, 511, 508, 503, 496, 487,
     476, 463, 448, 432, 414, 394, 373, 350, 326, 301, 274, 247, 218, 189, 159, 128,
     96, 65, 33, 1, -31, -63, -95, -126, -157, -187, -217, -246, -273, -300, -325, -349,
     -372, -393, -413, -431, -448, -462, -475, -486, -495, -502, -508, -511, -512, -511, -508, -503,
     -497, -488, -477, -465, -450, -434, -416, -397, -376, -353, -329, -304, -277, -250, -221, -192,
     -162, -131, -100, -68, -36, -4, 28, 60, 91, 123, 154, 184, 214, 242, 270, 297,
     322, 347, 370, 391, 411, 429, 446, 461, 474, 485, 494, 502, 507, 511, 512, 511,
     509, 504, 497, 489, 478, 466, 452, 436, 418, 399, 378, 356, 332, 307, 281, 253,
     225, 196, 165, 135, 104, 72, 40, 8, -24, -56, -88, -119, -150, -181, -210, -239,
     -267, -294, -320, -344, -367, -389, -409, -427, -444, -459, -473, -484, -493, -501, -507, -510,
     -512, -512, -509, -505, -498, -490, -480, -468, -454, -438, -420, -401, -380, -358, -335, -310,
     -284, -256, -228, -199, -169, -138, -107, -76, -44, -12, 20, 52, 84, 116, 147, 177,
     207, 236, 264, 291, 317, 341, 364, 386, 407, 425, 442, 458, 471, 483, 492, 500,
     506, 510, 512, 512, 509, 505, 499, 491, 481, 469, 455, 440, 422, 403, 383, 361,
     337, 313, 287, 259, 231, 202, 172, 142, 111, 79, 47, 15, -17, -49, -81, -112,
     -143, -174, -204, -233, -261, -288, -314, -339, -362, -384, -404, -423, -440, -456, -470, -481,
     -491, -499, -506, -510, -512, -512, -510, -506, -500, -492, -482, -471, -457, -442, -424, -406,
     -385, -363, -340, -316, -290, -263, -235, -206, -176, -145, -114, -83, -51, -19, 13, 45,
     77, 109, 140, 170, 200, 229, 258, 285, 311, 336, 359, 381, 402, 421, 439, 454,
     468, 480, 490, 499, 505, 509, 512, 512, 510, 506, 501, 493, 483, 472, 459, 443,
     426, 408, 388, 366, 343, 318, 293, 266, 238, 209, 179, 149, 118, 86, 55, 23,
     -9, -42, -73, -105, -136, -167, -197, -226, -254, -282, -308, -333, -357, -379, -400, -419,
     -437, -453, -467, -479, -489, -498, -504, -509, -511, -512, -510, -507, -501, -494, -485, -473,
     -460, -445, -429, -410, -390, -369, -346, -321, -296, -269, -241, -212, -183, -152, -121, -90,
     -58, -26, 6, 38, 70, 101, 133, 163, 193, 223, 251, 279, 305, 330, 354, 377,
     398, 417, 435, 451, 465, 478, 488, 497, 504, 508, 511, 512, 511, 507, 502, 495,
     486, 475, 462, 447, 430, 412, 392, 371, 348, 324, 299, 272, 244, 216, 186, 156,
     125, 94, 62, 30, -2, -34, -66, -98, -129, -160, -190, -220, -248, -276, -302, -327,
     -351, -374, -395, -415, -433, -449, -464, -476, -487, -496, -503, -508, -511, -512, -511, -508,
     -503, -496, -487, -476, -463, -449, -432, -414, -395, -374, -351, -327, -302, -275, -247, -219,
     -189, -159, -128, -97, -65, -34, -1, 31, 63, 94, 126, 156, 187, 216, 245, 273,
     299, 325, 349, 372, 393, 413, 431, 447, 462, 475, 486, 495, 502, 508, 511, 512,
     511, 508, 504, 497, 488, 477, 465, 451, 434, 417, 397, 376, 354, 330, 304, 278,
     251, 222, 193, 163, 132, 101, 69, 37, 5, -27, -59, -91, -122, -153, -183, -213,
     -242, -269, -296, -322, -346, -369, -391, -411, -429, -446, -461, -474, -485, -494, -502, -507,
     -511, -512, -511, -509, -504, -498, -489, -479, -466, -452, -436, -419, -399, -379, -356, -332,
     -307, -281, -254, -225, -196, -166, -136, -104, -73, -41, -9, 23, 55, 87, 119, 150,
     180, 210, 238, 266, 293, 319, 343, 367, 388, 408, 427, 444, 459, 472, 484, 493,
     501, 507, 510, 512, 512, 509, 505, 499, 490, 480, 468, 454, 438, 421, 402, 381,
     359, 335, 310, 284, 257, 229, 200, 170, 139, 108, 76, 44, 12, -20, -52, -84,
     -115, -146, -176, -206, -235, -263, -290, -316, -341, -364, -386, -406, -425, -442, -457, -471,
     -482, -492, -500, -506, -510, -512, -512, -510, -505, -499, -491, -481, -469, -456, -440, -423,
     -404, -383, -361, -338, -313, -287, -260, -232, -203, -173, -143, -111, -80, -48, -16, 16,
     48, 80, 111, 143, 173, 203, 232, 260, 287, 313, 338, 361, 383, 404, 423, 440,
     456, 469, 481, 491, 499, 505, 510, 512, 512, 510, 506, 500, 492, 482, 471, 457,
     442, 425, 406, 386, 364, 341, 316, 290, 263, 235, 206, 176, 146, 115, 84, 52,
     20, -12, -44, -76, -108, -139, -170, -200, -229, -257, -284, -310, -335, -359, -381, -402,
     -421, -438, -454, -468, -480, -490, -499, -505, -509, -512, -512, -510, -507, -501, -493, -484,
     -472, -459, -444, -427, -408, -388, -367, -343, -319, -293, -266, -238, -210, -180, -150, -119,
     -87, -55, -23, 9, 41, 73, 104, 136, 166, 196, 225, 254, 281, 307, 332, 356,
     379, 399, 419, 436, 452, 466, 479, 489, 498, 504, 509, 511, 512, 511, 507, 502,
     494, 485, 474, 461, 446, 429, 411, 391, 369, 346, 322, 296, 269, 242, 213, 183,
     153, 122, 91, 59, 27, -5, -37, -69, -101, -132, -163, -193, -222, -251, -278, -304,
     -330, -354, -376, -397, -417, -434, -451, -465, -477, -488, -497, -504, -508, -511, -512, -511,
     -508, -502, -495, -486, -475, -462, -447, -431, -413, -393, -372, -349, -325, -299, -273, -245,
     -216, -187, -156, -126, -94, -63, -31, 1, 34, 65, 97, 128, 159, 189, 219, 247,
     275, 302, 327, 351, 374, 395, 414, 432, 449, 463, 476, 487, 496, 503, 508, 511,
     512, 511, 508, 503, 496, 487, 476, 464, 449, 433, 415, 395, 374, 351, 327, 302,
     276, 248, 220, 190, 160, 129, 98, 66, 34, 2, -30, -62, -94, -125, -156, -186,
     -216, -244, -272, -299, -324, -348, -371, -392, -412, -430, -447, -462, -475, -486, -495, -502,
     -507, -511, -512, -511, -508, -504, -497, -488, -478, -465, -451, -435, -417, -398, -377, -354,
     -330, -305, -279, -251, -223, -193, -163, -133, -101, -70, -38, -6, 26, 58, 90, 121,
     152, 183, 212, 241, 269, 296, 321, 346, 369, 390, 410, 429, 445, 460, 473, 485,
     494, 501, 507, 510, 512, 511, 509, 504, 498, 489, 479, 467, 453, 437, 419, 400,
     379, 357, 333, 308, 282, 254, 226, 197, 167, 136, 105, 73, 42, 9, -23, -55,
     -86, -118, -149, -179, -209, -238, -266, -293, -318, -343, -366, -388, -408, -426, -443, -459,
     -472, -483, -493, -501, -506, -510, -512, -512, -509, -505, -499, -490, -480, -468, -454, -439,
     -421, -402, -381, -359, -336, -311, -285, -258, -229, -200, -170, -140, -109, -77, -45, -13,
     19, 51, 83, 114, 145, 176, 206, 235, 263, 290, 316, 340, 363, 385, 406, 424,
     442, 457, 471, 482, 492, 500, 506, 510, 512, 512, 510, 506, 499, 491, 481, 470,
     456, 440, 423, 404, 384, 362, 339, 314, 288, 261, 233, 204, 174, 143, 112, 81,
     49, 17, -15, -47, -79, -111, -142, -172, -202, -231, -259, -287, -313, -337, -361, -383,
     -403, -422, -440, -455, -469, -481, -491, -499, -505, -509, -512, -512, -510, -506, -500, -492,
     -483, -471, -458, -442, -425, -407, -386, -364, -341, -317, -291, -264, -236, -207, -177, -147,
     -116, -84, -52, -20, 12, 44, 76, 107, 138, 169, 199, 228, 256, 284, 310, 335,
     358, 380, 401, 420, 438, 454, 468, 480, 490, 498, 505, 509, 512, 512, 510, 507,
     501, 493, 484, 473, 459, 444, 427, 409, 389, 367, 344, 320, 294, 267, 239, 210,
     181, 150, 119, 88, 56, 24, -8, -40, -72, -104, -135, -165, -196, -225, -253, -281,
     -307, -332, -356, -378, -399, -418, -436, -452, -466, -478, -489, -497, -504, -509, -511, -512,
     -511, -507, -502, -494, -485, -474, -461, -446, -429, -411, -391, -370, -347, -322, -297, -270,
     -242, -214, -184, -154, -123, -91, -60, -28, 4, 36, 68, 100, 131, 162, 192, 221,
     250, 277, 304, 329, 353, 376, 397, 416, 434, 450, 465, 477, 488, 497, 503, 508,
     511, 512, 511, 508, 502, 495, 486, 475, 462, 448, 431, 413, 393, 372, 349, 325,
     300, 273, 246, 217, 187, 157, 126, 95, 63, 31, -1, -33, -65, -96, -128, -159,
     -189, -218, -247, -274, -301, -326, -350, -373, -394, -414, -432, -448, -463, -476, -487, -496,
     -503, -508, -511, -512, -511, -508, -503, -496, -487, -477, -464, -449, -433, -415, -396, -375,
     -352, -328, -303, -276, -249, -220, -191, -161, -130, -99, -67, -35, -3, 29, 61, 93,
     124, 155, 185, 215, 244, 271, 298, 323, 348, 371, 392, 412, 430, 447, 461, 474,
     486, 495, 502, 507, 511, 512, 511, 509, 504, 497, 488, 478, 465, 451, 435, 417,
     398, 377, 355, 331, 306, 279, 252, 223, 194, 164, 133, 102, 71, 39, 7, -26,
     -58, -89, -121, -152, -182, -212, -240, -268, -295, -321, -345, -368, -390, -410, -428, -445,
     -460, -473, -484, -494, -501, -507, -510, -512, -511, -509, -504, -498, -490, -479, -467, -453,
     -437, -420, -400, -380, -357, -334, -309, -282, -255, -227, -198, -168, -137, -106, -74, -42,
     -10, 22, 54, 86, 117, 148, 179, 208, 237, 265, 292, 318, 342, 366, 387, 407,
     426, 443, 458, 472, 483, 493, 501, 506, 510, 512, 512, 509, 505, 499, 491, 480,
     468, 455, 439, 422, 403, 382, 360, 336, 311, 285, 258, 230, 201, 171, 140, 109,
     78, 46, 14, -18, -50, -82, -114, -145, -175, -205, -234, -262, -289, -315, -340, -363,
     -385, -405, -424, -441, -457, -470, -482, -492, -500, -506, -510, -512, -512, -510, -506, -500,
     -492, -482, -470, -456, -441, -424, -405, -384, -362, -339, -314, -288, -261, -233, -204, -174,
     -144, -113, -81, -50, -18, 15, 47, 78, 110, 141, 172, 202, 231, 259, 286, 312,
     337, 360, 382, 403, 422, 439, 455, 469, 481, 491, 499, 505, 509, 512, 512, 510,
     506, 500, 493, 483, 471, 458, 443, 426, 407, 387, 365, 342, 317, 291, 264, 236 >>

\* ------------------------------------------------- SpecPitch: the detector's functions

\* Length of the short buffers
PitchLen == 3

\* Samples of the short buffers: silence, just below and just above the gate when
\* every sample has it (5/512 < 0.01 < 6/512), and half scale of either sign
SampleValues == {0, 5, 6, 0 - 256, 256}

ShortBuffers == [1..PitchLen -> SampleValues]

\* audioContext.sampleRate
SampleRates == {8000, 44100, 48000}

\* Frequencies given to frequencyToMidi, in Hz
ProbeFrequencies ==
  {Fraction(440, 1), Fraction(55, 2), Fraction(4186, 1), Fraction(4528, 10),
   Fraction(4529, 10), Fraction(44100, 100), Fraction(44100, 902), Fraction(8000, 2)}

InitPitch ==
  /\ call \in [fn : {"autoCorrelate"}, buffer : ShortBuffers, sampleRate : SampleRates]
              \cup {[fn |-> "autoCorrelate", buffer |-> Sine440, sampleRate |-> 44100]}
              \cup [fn : {"frequencyToMidi"}, frequency : ProbeFrequencies]
  /\ stats = <<>> /\ storage = NoItem /\ answers = 0
  /\ AppIdle
  /\ MicIdle

\* detectPitch: autoCorrelate(dataArray, sampleRate)
DetectOnce ==
  /\ call.fn = "autoCorrelate"
  /\ call' = [fn |-> "autoCorrelate returned", buffer |-> call.buffer,
              sampleRate |-> call.sampleRate,
              out |-> autoCorrelate(call.buffer, call.sampleRate)]
  /\ UNCHANGED <<stats, storage, answers, appVars, micVars>>

\* frequencyToMidi(frequency)
ToMidi ==
  /\ call.fn = "frequencyToMidi"
  /\ call' = [fn |-> "frequencyToMidi returned", frequency |-> call.frequency,
              out |-> frequencyToMidi(call.frequency)]
  /\ UNCHANGED <<stats, storage, answers, appVars, micVars>>

NextPitch == DetectOnce \/ ToMidi

SpecPitch == InitPitch /\ [][NextPitch]_vars

\* ------------------------------------------------- claims C1 - C7

\* A record all of whose fields are numbers
Numeric(rec) ==
  \A x \in {rec.seen, rec.correct, rec.wrong, rec.emaAcc} : x \notin {NaN, Null, Undef}

\* C1: pickNextNote never returns the avoided pitch when the candidate set, before
\* the exclusion, has more than one member, whatever the stats and the draw.
C1_NeverAvoid ==
  (call.fn = "pickNextNote" /\ Len(call.midiChoices) > 1)
    => call.out # call.avoidMidi \/ call.avoidMidi = Undef

C1_Witness ==
  /\ call.fn = "pickNextNote"
  /\ Len(call.midiChoices) > 1
  /\ call.avoidMidi \in SeqToSet(call.midiChoices)
  /\ call.out \in SeqToSet(call.midiChoices)
  /\ DOMAIN call.s # {}

\* C2: for every stats table, tables loaded from storage included, and every
\* MIDI number, the weight lies in [1, 8].
C2_WeightInRange ==
  call.fn = "weightForMidi"
    => jsLe(WUnit, call.out) /\ jsLe(call.out, 8 * WUnit)

\* C3: updateStats starts from the existing record or the default, adds one to seen,
\* one to correct or to wrong, and moves emaAcc to 0.75 * emaAcc + 0.25 * (1 or 0);
\* from the default a correct answer gives {1, 1, 0, 0.625}, and a wrong answer
\* after it {2, 1, 1, 0.46875}.
C3_RecordOutcome ==
  call.fn = "updateStats" =>
    LET k == statsKey(call.midi)
        old == IF k \in DOMAIN call.s THEN call.s[k]
               ELSE [seen |-> 0, correct |-> 0, wrong |-> 0, emaAcc |-> EmaDen \div 2]
        new == call.out[k]
        hit == IF call.wasCorrect THEN 1 ELSE 0
    IN  Numeric(old) =>
          /\ new.seen = old.seen + 1
          /\ new.correct = old.correct + hit
          /\ new.wrong = old.wrong + (1 - hit)
          /\ 4 * new.emaAcc = 3 * old.emaAcc + hit * EmaDen
          /\ (k \notin DOMAIN call.s /\ call.wasCorrect)
               => new = [seen |-> 1, correct |-> 1, wrong |-> 0, emaAcc |-> (5 * EmaDen) \div 8]
          /\ (old = [seen |-> 1, correct |-> 1, wrong |-> 0, emaAcc |-> (5 * EmaDen) \div 8]
                /\ ~call.wasCorrect)
               => new = [seen |-> 2, correct |-> 1, wrong |-> 1, emaAcc |-> (15 * EmaDen) \div 32]

C3_Witness ==
  /\ call.fn = "updateStats"
  /\ ~call.wasCorrect
  /\ statsKey(call.midi) \in DOMAIN call.s
  /\ call.s[statsKey(call.midi)] =
       [seen |-> 1, correct |-> 1, wrong |-> 0, emaAcc |-> (5 * EmaDen) \div 8]
  /\ call.out[statsKey(call.midi)] =
       [seen |-> 2, correct |-> 1, wrong |-> 1, emaAcc |-> (15 * EmaDen) \div 32]

\* C4: the weight is clamp((1 + 0.6 wrong) (1 + 2.5 (1 - emaAcc)) (1.8 if never seen,
\* else 1), 1, 8) on the record of midi, the default record when there is none; for a
\* never-seen note it is 4.05.
C4_WeightFormula ==
  call.fn = "weightForMidi" =>
    LET k == statsKey(call.midi)
        rec == IF k \in DOMAIN call.s THEN call.s[k]
               ELSE [seen |-> 0, correct |-> 0, wrong |-> 0, emaAcc |-> EmaDen \div 2]
        \* the three factors times 10, emaAcc being a numerator over EmaDen
        raw == (10 + 6 * rec.wrong) * (10 * EmaDen + 25 * (EmaDen - rec.emaAcc))
                 * (IF rec.seen = 0 THEN 18 ELSE 10)
    IN  /\ Numeric(rec) =>
             call.out = (IF raw < WUnit THEN WUnit ELSE IF raw > 8 * WUnit THEN 8 * WUnit ELSE raw)
        /\ k \notin DOMAIN call.s => 100 * call.out = 405 * WUnit

C4_Witness ==
  /\ call.fn = "weightForMidi"
  /\ statsKey(call.midi) \notin DOMAIN call.s
  /\ DOMAIN call.s # {}
  /\ 100 * call.out = 405 * WUnit

\* C5: updateStats returns a table in which only the entry of midi differs from the
\* table it was given: every other entry is there, unchanged.
C5_OnlyThatEntry ==
  call.fn = "updateStats" =>
    /\ DOMAIN call.out = DOMAIN call.s \cup {statsKey(call.midi)}
    /\ \A k \in DOMAIN call.s : k # statsKey(call.midi) => call.out[k] = call.s[k]

C5_Witness ==
  /\ call.fn = "updateStats"
  /\ \E k \in DOMAIN call.s : k # statsKey(call.midi) /\ call.out[k] = call.s[k]
  /\ statsKey(call.midi) \in DOMAIN call.s
  /\ call.out[statsKey(call.midi)] # call.s[statsKey(call.midi)]

\* C6: buildMidiRange returns, strictly ascending, exactly the m of [minMidi, maxMidi]
\* that are naturals (pitch class in {0,2,4,5,7,9,11}) or, with includeAccidentals,
\* all of them: build(60,67,false) = [60,62,64,65,67], build(60,67,true) = [60..67].
C6_BuildExact ==
  call.fn = "buildMidiRange" =>
    /\ \A i \in 1..(Len(call.out) - 1) : call.out[i] < call.out[i + 1]
    /\ SeqToSet(call.out) =
         {m \in call.minMidi..call.maxMidi :
            call.includeAccidentals \/ (m % 12) \in {0, 2, 4, 5, 7, 9, 11}}
    /\ (call.minMidi = 60 /\ call.maxMidi = 67 /\ ~call.includeAccidentals)
         => call.out = <<60, 62, 64, 65, 67>>
    /\ (call.minMidi = 60 /\ call.maxMidi = 67 /\ call.includeAccidentals)
         => call.out = <<60, 61, 62, 63, 64, 65, 66, 67>>

C6_Witness ==
  /\ call.fn = "buildMidiRange"
  /\ call.minMidi = 60 /\ call.maxMidi = 67 /\ ~call.includeAccidentals
  /\ call.out = <<60, 62, 64, 65, 67>>

\* C7 as stated: buildMidiRange returns the empty list only if minMidi > maxMidi.
C7_EmptyOnlyIfInverted ==
  (call.fn = "buildMidiRange" /\ call.out = <<>>) => call.minMidi > call.maxMidi

\* C7 amended: buildMidiRange returns the empty list only if minMidi > maxMidi, or
\* includeAccidentals is false and the range is a single black key.
C7_EmptyOnlyIfNoNatural ==
  (call.fn = "buildMidiRange" /\ call.out = <<>>) =>
    \/ call.minMidi > call.maxMidi
    \/ /\ ~call.includeAccidentals
       /\ call.minMidi = call.maxMidi
       /\ (call.minMidi % 12) \in {1, 3, 6, 8, 10}

C7_Witness ==
  /\ call.fn = "buildMidiRange"
  /\ call.out = <<>>
  /\ call.minMidi = call.maxMidi
  /\ ~call.includeAccidentals

\* ------------------------------------------------- claims C8 - C10

\* C8: whichever source delivered the answer, submitMidi judges it correct exactly
\* when it equals the note shown when the answer was delivered, and records exactly
\* one outcome, under that note: the stats after the call are updateStats of the
\* stats before it with the shown note and that verdict.
C8_JudgedAgainstShown ==
  call.fn = "submitMidi" =>
    /\ call.correct <=> (call.answerMidi = call.shown)
    /\ call.out = updateStats(call.s, call.shown, call.correct)

\* C9: an answer from MIDI or from pitch detection is judged against the note that is
\* current when the answer is delivered, not against the note that was current when
\* the source was connected.
C9_LateAnswerAgainstCurrent ==
  (call.fn = "submitMidi" /\ call.source \in {"midi", "pitch"}) =>
    call.target = call.shown

\* C10: when a request for the microphone completes after a stop (the stop path of
\* the click, or the teardown) that happened while it was waiting, no detection loop
\* of that request runs and the detector is not active.
C10_NoStartAfterStop ==
  (call.fn = "startPitchDetection" /\ call.stoppedWhilePending) =>
    /\ \A l \in loops : l.id # call.id
    /\ ~isPitchDetectionActive

\* ------------------------------------------------- claims C11 - C20

\* C11: once a stop has been processed no detection loop stays scheduled, so no
\* detectLoop callback runs after it, whatever clicks, permission answers and
\* teardown came before.
C11_NoLoopAfterStop ==
  StopProcessed => loops = {}

\* C12: once a stop or the teardown has run, every stream a start acquired has had
\* its tracks stopped.
C12_NoLiveStreamAfterStop ==
  StopProcessed => liveStreams = {}

\* C13: stopPitchDetection run twice in a row, or with detection never started,
\* leaves the detector idle after each call: no stream, no analyser,
\* isPitchDetectionActive false.
C13_StopLeavesIdle ==
  StopProcessed => (mediaStream = 0 /\ analyser = 0 /\ ~isPitchDetectionActive)

\* the teardown right after the stop path of a click: stopPitchDetection twice in a row
C13_Witness ==
  /\ call.fn = "unmount" /\ call.stopJustRan
  /\ mediaStream = 0 /\ analyser = 0

\* C14: autoCorrelate returns null whenever the RMS of the buffer is below 0.01 (the
\* mean of the squares below 0.0001); an all-zero buffer gives null at every sample
\* rate.
C14_SilenceGate ==
  call.fn = "autoCorrelate returned" =>
    /\ ratLess(sumSquares(call.buffer, 1, Len(call.buffer)), Len(call.buffer),
               SampleUnit * SampleUnit, 10000) => call.out = NoFrequency
    /\ (\A i \in 1..Len(call.buffer) : call.buffer[i] = 0) => call.out = NoFrequency

\* a quiet buffer that is not silent: without the gate its lag 2 would be a peak
C14_Witness ==
  /\ call.fn = "autoCorrelate returned"
  /\ call.buffer = <<5, 0, 5>>
  /\ call.sampleRate = 8000
  /\ call.out = NoFrequency

\* C15: autoCorrelate on one window (2048 samples) of a 440 Hz sine sampled at
\* 44100 Hz returns a frequency within 1% of 440 Hz, and frequencyToMidi(440) is 69.
C15_Sine440 ==
  /\ (call.fn = "autoCorrelate returned" /\ call.sampleRate = 44100 /\ call.buffer = Sine440) =>
       /\ call.out # NoFrequency
       /\ 4356 * call.out.den <= 10 * call.out.num
       /\ 10 * call.out.num <= 4444 * call.out.den
  /\ (call.fn = "frequencyToMidi returned" /\ call.frequency = Fraction(440, 1)) =>
       call.out = 69

WellFormedText(raw) ==
  /\ raw.kind = "object"
  /\ \A k \in DOMAIN raw.entries :
       \A t \in {raw.entries[k].seen, raw.entries[k].correct,
                 raw.entries[k].wrong, raw.entries[k].emaAcc} : t.kind = "number"

\* C17: loadStats returns the empty table whenever the stored item is missing, is not
\* JSON, or is not a mapping from keys to records of stats.
C17_CorruptGivesEmpty ==
  (call.fn = "loadStats" /\ ~WellFormedText(call.raw)) => call.out = <<>>

\* C18: when the request for the microphone is refused, connectPitchDetection ends
\* with the status "access denied", the detector idle and no detection loop running.
C18_DeniedLeavesIdle ==
  (call.fn = "startPitchDetection" /\ call.outcome = "denied" /\ mounted) =>
    /\ status = "Microphone: access denied"
    /\ ~isPitchDetectionActive
    /\ loops = {}

OutOfSetDelivery(c) ==
  /\ c.fn \in {"handlePress", "onMsg", "detectLoop"}
  /\ c.fn = "onMsg" => commandOf(c.status) = 144 /\ c.velocity > 0
  /\ c.fn = "detectLoop" => c.note # 0 /\ mounted
  /\ ~c.inSet

\* C20: two notes outside the candidate set, delivered one after the other by any
\* two sources, are treated alike: both ignored or both submitted.
C20_OnePolicy ==
  [][(OutOfSetDelivery(call) /\ OutOfSetDelivery(call')) =>
       call.submitted = call'.submitted]_vars

\* ------------------------------------------------------ claims C21 - C30

\* C21: a MIDI message is submitted as an answer exactly when the high nibble of its
\* status byte is 9 and its velocity is positive; every other message leaves the
\* submissions, the stats, the advance timers and the target as they were.
C21_NoteOnOnly ==
  [][call'.fn = "onMsg" =>
       IF (call'.status \div 16) % 16 = 9 /\ call'.velocity > 0
       THEN \E p \in pending' \ pending :
              /\ p.source = "midi"
              /\ p.answerMidi = call'.note
              /\ pending' = pending \cup {p}
       ELSE /\ pending' = pending
            /\ stats' = stats
            /\ current' = current
            /\ timers' = timers]_vars

C21_Witness ==
  /\ call.fn = "onMsg"
  /\ call.status = 145
  /\ call.velocity = 64
  /\ \E p \in pending : p.source = "midi" /\ p.answerMidi = call.note /\ p.n = answers

\* The calls that end in setCurrent(pickNextNote(...))
PickCalls ==
  {"next (timer)", "next (button)", "handleResetStats", "settings effect",
   "settings effect (key signature)"}

\* C22 as stated: the target is changed by the answer path only (the advance timer
\* of an answer taken as part of it), the stats by the answer path and the reset only.
C22_OnlySubmitAnswer ==
  [][/\ current' # current => call'.fn = "next (timer)"
     /\ stats' # stats => call'.fn \in {"submitMidi", "handleResetStats"}]_vars

\* C22 (amended): the stats are changed only by submitMidi, in the entry of its
\* target alone, and by the reset, to the empty table; the target is changed only
\* by a pick (advance timer, Next button, settings effect, follow-up of the reset),
\* to the note that pick returned.
C22_OnlyNamedPaths ==
  [][/\ stats' # stats =>
          \/ /\ call'.fn = "submitMidi"
             /\ DOMAIN stats' = DOMAIN stats \cup {statsKey(call'.target)}
             /\ \A k \in DOMAIN stats :
                  k # statsKey(call'.target) => stats'[k] = stats[k]
          \/ /\ call'.fn = "handleResetStats"
             /\ stats' = <<>>
     /\ current' # current => call'.fn \in PickCalls /\ current' = call'.out]_vars

C22_Witness ==
  /\ call.fn = "next (button)"
  /\ call.out = current
  /\ call.out # call.avoidMidi
  /\ stats # <<>>

\* C23: an answer is accepted only when no earlier answer is still on its way
\* (submitted and not yet scored, or scored with its advance to the next target
\* still to come), and no two answers are scored in a row on one target.
C23_OneAtATime ==
  [][/\ (pending' \ pending) # {} => pending = {} /\ timers = {}
     /\ ~(call.fn = "submitMidi" /\ call'.fn = "submitMidi")]_vars

\* C24: on a non-empty working set weightedPick returns a member of it; for a draw
\* r in [0, total) it is the first item, in list order, at which the weights
\* subtracted so far reach r, and when no item triggers (the total is not a number)
\* it is the last item.
C24_WalkInOrder ==
  (call.fn = "pickNextNote" /\ call.midiChoices # <<>>) =>
    LET a == pickArgs(call.midiChoices, call.s, call.avoidMidi)
        w == a.adjustedWeights
        total == sumWeights(w)
        hits == {i \in 1..Len(w) : isNum(sumPrefix(w, i)) /\ sumPrefix(w, i) >= call.rnd.r}
        first == CHOOSE i \in hits : \A j \in hits : i <= j
    IN  /\ call.out \in SeqToSet(a.choices)
        /\ (isNum(total) /\ total > 0) =>
             /\ call.rnd.r >= 0 /\ call.rnd.r < total
             /\ hits # {}
             /\ call.out = a.choices[first]
        /\ ~isNum(total) => call.out = a.choices[Len(a.choices)]

\* a draw that falls on the end of the first weight: the first item is returned
C24_Witness ==
  /\ call.fn = "pickNextNote"
  /\ Len(call.midiChoices) = 3
  /\ call.avoidMidi = Undef
  /\ call.rnd.r = weightForMidi(call.s, call.midiChoices[1])
  /\ call.out = call.midiChoices[1]

\* C25: when the RMS is at least 0.01, a lag qualifies when it lies in
\* [floor(sampleRate / 4186), ceil(sampleRate / 27.5)), its correlation is above 0.9
\* and above the correlation computed at the lag before it; autoCorrelate returns
\* sampleRate / lag for a qualifying lag that no qualifying lag beats, and null
\* exactly when no lag qualifies.
C25_BestRisingLag ==
  (/\ call.fn = "autoCorrelate returned"
   /\ ~ratLess(sumSquares(call.buffer, 1, Len(call.buffer)), Len(call.buffer),
               SampleUnit * SampleUnit, 10000)) =>
    LET sr == call.sampleRate
        minLag == CHOOSE n \in 0..sr : n * 4186 <= sr /\ sr < (n + 1) * 4186
        maxLag == CHOOSE n \in 0..sr : 2 * sr <= 55 * n /\ 55 * (n - 1) < 2 * sr
        corr == [lag \in minLag..(maxLag - 1) |-> correlationAt(call.buffer, lag)]
        qualifies == {lag \in (minLag + 1)..(maxLag - 1) :
                        /\ corrGt(corr[lag], Fraction(9, 10))
                        /\ corrGt(corr[lag], corr[lag - 1])}
    IN  IF qualifies = {}
        THEN call.out = NoFrequency
        ELSE /\ call.out # NoFrequency
             /\ call.out = Fraction(sr, call.out.den)
             /\ call.out.den \in qualifies
             /\ \A lag \in qualifies : ~corrGt(corr[lag], corr[call.out.den])

\* the sine window: the multiples of its period all qualify, one of them is returned
C25_Witness ==
  /\ call.fn = "autoCorrelate returned"
  /\ call.buffer = Sine440
  /\ call.sampleRate = 44100
  /\ call.out = Fraction(44100, 902)
  /\ corrGt(correlationAt(Sine440, 401), Fraction(9, 10))
  /\ corrGt(correlationAt(Sine440, 401), correlationAt(Sine440, 400))

\* C26: the pick made by the advance timer of an answer weighs the candidates by
\* the table that holds the outcome just recorded (the table in force when it
\* runs), and does not return the pitch just answered when there is another.
C26_PickAfterRecord ==
  call.fn = "next (timer)" =>
    /\ pickArgs(call.midiChoices, call.s, call.avoidMidi).adjustedWeights
         = pickArgs(call.midiChoices, stats, call.avoidMidi).adjustedWeights
    /\ Len(call.midiChoices) > 1 => call.out # call.avoidMidi

\* C27: in every table reached from the empty one by answers and resets, the
\* emaAcc of every record lies in [0, 1].
C27_EmaInUnitInterval ==
  \A k \in DOMAIN stats :
    isNum(stats[k].emaAcc) /\ 0 <= stats[k].emaAcc /\ stats[k].emaAcc <= EmaDen

\* three correct answers on one note: 1 - 0.5 * 0.75^3
C27_Witness ==
  /\ call.fn = "updateStats"
  /\ statsKey(60) \in DOMAIN stats
  /\ stats[statsKey(60)].seen = 3
  /\ stats[statsKey(60)].correct = 3
  /\ 64 * stats[statsKey(60)].emaAcc = 101 * (EmaDen \div 2)
  /\ statsKey(62) \notin DOMAIN stats

\* C28: in every table reached from the empty one by answers and resets, every
\* record has seen = correct + wrong.
C28_SeenIsSum ==
  \A k \in DOMAIN stats :
    /\ isNum(stats[k].seen) /\ isNum(stats[k].correct) /\ isNum(stats[k].wrong)
    /\ stats[k].seen = stats[k].correct + stats[k].wrong

\* a reset, then one answer of each kind on one note
C28_Witness ==
  /\ call.fn = "updateStats"
  /\ call.s # <<>>
  /\ answers = 3
  /\ DOMAIN stats = {statsKey(62)}
  /\ stats[statsKey(62)].seen = 2
  /\ stats[statsKey(62)].correct = 1
  /\ stats[statsKey(62)].wrong = 1

\* C29: for every table s reached from the empty one and every note, recording a
\* wrong answer does not lower the weight of the note:
\* weightForMidi(updateStats(s, midi, false), midi) >= weightForMidi(s, midi).
C29_WrongNeverLowers ==
  (call.fn = "updateStats" /\ ~call.wasCorrect) =>
    /\ isNum(weightForMidi(call.s, call.midi))
    /\ weightForMidi(call.out, call.midi) >= weightForMidi(call.s, call.midi)

\* a note never seen loses the novelty factor: 4.05 before, 4.1 after
C29_Witness ==
  /\ call.fn = "updateStats"
  /\ ~call.wasCorrect
  /\ statsKey(call.midi) \notin DOMAIN call.s
  /\ 100 * weightForMidi(call.s, call.midi) = 405 * WUnit
  /\ 10 * weightForMidi(call.out, call.midi) = 41 * WUnit

\* C30: once every answer has been scored and every advance timer has run, the
\* target is a member of the candidate set of the selected range and difficulty.
C30_TargetInCandidateSet ==
  (mounted /\ pending = {} /\ timers = {}) =>
    current \in SeqToSet(midiChoicesOf(ThisRender))

====
